---- MODULE Spec2Model ----
(***************************************************************************)
(* Model of the ObjectDetection component (camera session, detection loop) *)
(* and of the drawPredictions renderer.                                    *)
(*                                                                         *)
(* One action per handler / asynchronous continuation:                     *)
(*   loadModel resolution or rejection, Start click (startCamera up to its *)
(*   await), getUserMedia resolution or rejection (rest of startCamera),   *)
(*   the video element's loadedmetadata event, the commit of the state     *)
(*   update queued by that event (with the effect of lines 118-132),       *)
(*   the video reaching HAVE_ENOUGH_DATA, Stop click (stopCamera and the   *)
(*   synchronous re-render), an animation-frame callback firing            *)
(*   (detectFrame up to its await), model.detect() resolving or rejecting  *)
(*   (rest of detectFrame), and the component unmounting.                  *)
(***************************************************************************)
EXTENDS Integers, Sequences, FiniteSets, TLC

\* Number of Start clicks that reach getUserMedia. Each one acquires at most
\* one stream, and each entry into Active (one per attached stream at most)
\* starts at most one detection loop, so it also bounds streams and loops.
MaxStarts == 2

Streams == 1..MaxStarts
Loops == 1..MaxStarts

\* ---------------------------------------------------------------- constants
ModelErrorMsg == "Failed to load TensorFlow model. Please try refreshing."
CameraErrorMsg == "Camera permission denied or camera not available."
UnsupportedMsg == "Your browser does not support camera access."
NoError == "null"

HAVE_NOTHING == 0
HAVE_METADATA == 1
HAVE_ENOUGH_DATA == 4

\* Native sizes a camera may deliver (the constraints are only "ideal").
Resolutions == {<<1280, 720>>, <<640, 480>>}
NoVideoSize == <<0, 0>>
\* Size of a canvas element whose width/height were never set.
DefaultCanvasSize == <<300, 150>>

\* Confidence scores are kept in thousandths: 600 is 0.6.
ScoreThreshold == 600
FontPx == 16
LabelPad == 8
TextInset == 4
CharWidth == 8

\* Results the provider may return for a frame.
PredLists ==
  { <<>>,
    << [class |-> "person", score |-> 920, bbox |-> <<10, 10, 100, 200>>] >>,
    << [class |-> "dog", score |-> 550, bbox |-> <<0, 0, 50, 50>>] >> }

\* ---------------------------------------------------------------- renderer
ClassLen(c) == IF c \in {"person", "Person"} THEN 6 ELSE 3

\* Math.round(prediction.score * 100) for a score in thousandths.
RoundPct(score) == (score + 5) \div 10

Digits(n) == IF n < 10 THEN 1 ELSE IF n < 100 THEN 2 ELSE 3

\* ctx.measureText(textString).width for "<class> <pct>%".
MeasureText(c, pct) == CharWidth * (ClassLen(c) + 1 + Digits(pct) + 1)

\* drawOne with the filter written as "score <= 0.6".
drawOne_strictThreshold(p) ==
  IF p.score <= ScoreThreshold THEN <<>>
  ELSE
    LET isPerson == p.class = "person"
        strokeColor == IF isPerson THEN "#00FF00" ELSE "#00FFFF"
        backgroundColor == IF isPerson THEN "rgba(0, 255, 0, 0.2)"
                           ELSE "rgba(0, 255, 255, 0.2)"
        x == p.bbox[1]
        y == p.bbox[2]
        pct == RoundPct(p.score)
    IN << [op |-> "strokeRect", style |-> strokeColor, rect |-> p.bbox,
           text |-> <<>>],
          [op |-> "fillRect", style |-> backgroundColor, rect |-> p.bbox,
           text |-> <<>>],
          [op |-> "fillRect", style |-> strokeColor,
           rect |-> <<x, y, MeasureText(p.class, pct) + LabelPad,
                      FontPx + LabelPad>>,
           text |-> <<>>],
          [op |-> "fillText", style |-> "#000000",
           rect |-> <<x + TextInset, y + TextInset, 0, 0>>,
           text |-> <<p.class, pct>>] >>

\* drawOne with the background color chosen without looking at the class.
drawOne_oneBackground(p) ==
  IF p.score < ScoreThreshold THEN <<>>
  ELSE
    LET isPerson == p.class = "person"
        strokeColor == IF isPerson THEN "#00FF00" ELSE "#00FFFF"
        backgroundColor == "rgba(0, 255, 0, 0.2)"
        x == p.bbox[1]
        y == p.bbox[2]
        pct == RoundPct(p.score)
    IN << [op |-> "strokeRect", style |-> strokeColor, rect |-> p.bbox,
           text |-> <<>>],
          [op |-> "fillRect", style |-> backgroundColor, rect |-> p.bbox,
           text |-> <<>>],
          [op |-> "fillRect", style |-> strokeColor,
           rect |-> <<x, y, MeasureText(p.class, pct) + LabelPad,
                      FontPx + LabelPad>>,
           text |-> <<>>],
          [op |-> "fillText", style |-> "#000000",
           rect |-> <<x + TextInset, y + TextInset, 0, 0>>,
           text |-> <<p.class, pct>>] >>

\* The drawing calls made for one prediction (body of the forEach).
drawOne(p) ==
  IF p.score < ScoreThreshold THEN <<>>
  ELSE
    LET isPerson == p.class = "person"
        strokeColor == IF isPerson THEN "#00FF00" ELSE "#00FFFF"
        backgroundColor == IF isPerson THEN "rgba(0, 255, 0, 0.2)"
                           ELSE "rgba(0, 255, 255, 0.2)"
        x == p.bbox[1]
        y == p.bbox[2]
        pct == RoundPct(p.score)
    IN << [op |-> "strokeRect", style |-> strokeColor, rect |-> p.bbox,
           text |-> <<>>],
          [op |-> "fillRect", style |-> backgroundColor, rect |-> p.bbox,
           text |-> <<>>],
          [op |-> "fillRect", style |-> strokeColor,
           rect |-> <<x, y, MeasureText(p.class, pct) + LabelPad,
                      FontPx + LabelPad>>,
           text |-> <<>>],
          [op |-> "fillText", style |-> "#000000",
           rect |-> <<x + TextInset, y + TextInset, 0, 0>>,
           text |-> <<p.class, pct>>] >>

RECURSIVE drawFrom(_, _)
drawFrom(predictions, i) ==
  IF i > Len(predictions) THEN <<>>
  ELSE drawOne(predictions[i]) \o drawFrom(predictions, i + 1)

\* drawPredictions without the clearRect of line 8.
drawPredictions_noClear(predictions, prior) ==
  prior \o drawFrom(predictions, 1)

\* Content of the surface after drawPredictions: clearRect over the whole
\* canvas drops the prior marks, then the marks of each prediction in order.
drawPredictions(predictions, prior) == drawFrom(predictions, 1)

\* ---------------------------------------------------------------- state
VARIABLES
  mounted,        \* the component is mounted (videoRef/canvasRef non-null)
  hasMediaDevices,\* navigator.mediaDevices.getUserMedia exists
  model,          \* "null" | "loaded"
  isLoading,
  isCameraActive,
  error,
  renderPending,  \* setIsCameraActive(true) queued, not yet committed
  nStarts,        \* getUserMedia calls made so far
  tracks,         \* per stream: "none" | "pending" | "live" | "ended" | "failed"
  stopCalls,      \* per stream: number of track.stop() calls
  streamSize,     \* per stream: native size of its video track
  srcObject,      \* stream attached to the video element, 0 for null
  readyState,
  videoSize,      \* <<videoWidth, videoHeight>>
  canvasSize,     \* <<canvas.width, canvas.height>>
  marks,          \* drawing calls visible on the canvas
  animationRef,   \* animationRef.current, 0 for null
  loops,          \* per detection loop: where it is, and the model and
                  \* isCameraActive values its detectFrame closure captured
  last,           \* the handler that ran last, with its stream or loop and,
                  \* for a resolved detect(), the predictions it returned
                  \* and the number of marks on the canvas before the render
  sinceStop       \* stopCamera has run and Start was not clicked since

vars == <<mounted, hasMediaDevices, model, isLoading, isCameraActive, error,
          renderPending, nStarts, tracks, stopCalls, streamSize, srcObject,
          readyState, videoSize, canvasSize, marks, animationRef, loops, last,
          sinceStop>>

FreeLoop == [st |-> "free", mdl |-> "null", act |-> FALSE]

Init ==
  /\ mounted = TRUE
  /\ hasMediaDevices \in BOOLEAN
  /\ model = "null"
  /\ isLoading = TRUE
  /\ isCameraActive = FALSE
  /\ error = NoError
  /\ renderPending = FALSE
  /\ nStarts = 0
  /\ tracks = [s \in Streams |-> "none"]
  /\ stopCalls = [s \in Streams |-> 0]
  /\ streamSize = [s \in Streams |-> NoVideoSize]
  /\ srcObject = 0
  /\ readyState = HAVE_NOTHING
  /\ videoSize = NoVideoSize
  /\ canvasSize = DefaultCanvasSize
  /\ marks = <<>>
  /\ animationRef = 0
  /\ loops = [l \in Loops |-> FreeLoop]
  /\ last = <<"Init", 0, <<>>, 0>>
  /\ sinceStop = FALSE

\* ---------------------------------------------------------------- helpers
\* cancelAnimationFrame(id) guarded by "if (animationRef.current)": removes
\* the callback with that id if it is still pending, nothing otherwise.
cancelAnimationFrame(lp, id) ==
  IF id # 0 /\ lp[id].st = "raf" THEN [lp EXCEPT ![id] = FreeLoop] ELSE lp

\* Start rendered whenever the model is not loading, also while Active.
StartAvailable_whileActive == mounted /\ ~isLoading

\* Controls rendered by the component.
StartAvailable == mounted /\ ~isLoading /\ ~isCameraActive
StopAvailable == mounted /\ ~isLoading /\ isCameraActive

\* The part of the state stopCamera reads and writes.
State ==
  [ srcObject |-> srcObject, tracks |-> tracks, stopCalls |-> stopCalls,
    readyState |-> readyState, videoSize |-> videoSize,
    animationRef |-> animationRef, loops |-> loops,
    isCameraActive |-> isCameraActive, marks |-> marks ]

\* stopCamera with "videoRef.current.srcObject = null" left out.
stopCamera_keepsStream(s) ==
  LET s1 == IF s.srcObject # 0
            THEN [s EXCEPT !.tracks[s.srcObject] = "ended",
                           !.stopCalls[s.srcObject] = @ + 1]
            ELSE s
      s2 == IF s1.animationRef # 0
            THEN [s1 EXCEPT !.loops = cancelAnimationFrame(@, s1.animationRef),
                            !.animationRef = 0]
            ELSE s1
  IN [s2 EXCEPT !.isCameraActive = FALSE, !.marks = <<>>]

\* stopCamera: stop the tracks of the attached stream and detach it (the
\* element then has no source: readyState HAVE_NOTHING, no video size),
\* cancel the callback whose id is in animationRef, set isCameraActive
\* false, clear the canvas.
stopCamera(s) ==
  LET s1 == IF s.srcObject # 0
            THEN [s EXCEPT !.tracks[s.srcObject] = "ended",
                           !.stopCalls[s.srcObject] = @ + 1,
                           !.srcObject = 0,
                           !.readyState = HAVE_NOTHING,
                           !.videoSize = NoVideoSize]
            ELSE s
      s2 == IF s1.animationRef # 0
            THEN [s1 EXCEPT !.loops = cancelAnimationFrame(@, s1.animationRef),
                            !.animationRef = 0]
            ELSE s1
  IN [s2 EXCEPT !.isCameraActive = FALSE, !.marks = <<>>]

\* The smallest free loop slot, 0 if there is none.
NewLoop(lp) ==
  IF \E l \in Loops : lp[l].st = "free"
  THEN CHOOSE l \in Loops :
         lp[l].st = "free" /\ \A k \in Loops : lp[k].st = "free" => l <= k
  ELSE 0

\* detectFrame without the readyState test: the provider is called on
\* every cycle.
detectFrame_noReadyCheck(l, mdl, act, lp) ==
  IF mdl = "null" \/ ~mounted
  THEN /\ loops' = [lp EXCEPT ![l] = FreeLoop]
       /\ UNCHANGED <<canvasSize, marks, animationRef>>
  ELSE /\ canvasSize' = videoSize
       /\ marks' = IF canvasSize # videoSize THEN <<>> ELSE marks
       /\ loops' = [lp EXCEPT ![l] = [st |-> "detect", mdl |-> mdl,
                                      act |-> act]]
       /\ UNCHANGED animationRef

\* detectFrame with the size matching of lines 68-71 left out.
detectFrame_noResize(l, mdl, act, lp) ==
  IF mdl = "null" \/ ~mounted
  THEN /\ loops' = [lp EXCEPT ![l] = FreeLoop]
       /\ UNCHANGED <<canvasSize, marks, animationRef>>
  ELSE IF readyState = HAVE_ENOUGH_DATA
  THEN /\ loops' = [lp EXCEPT ![l] = [st |-> "detect", mdl |-> mdl,
                                      act |-> act]]
       /\ UNCHANGED <<canvasSize, marks, animationRef>>
  ELSE IF act
  THEN /\ loops' = [lp EXCEPT ![l] = [st |-> "raf", mdl |-> mdl,
                                      act |-> act]]
       /\ animationRef' = l
       /\ UNCHANGED <<canvasSize, marks>>
  ELSE /\ loops' = [lp EXCEPT ![l] = FreeLoop]
       /\ UNCHANGED <<canvasSize, marks, animationRef>>

\* detectFrame from its call up to "await model.detect(video)" or, when the
\* video has no decodable frame, to its end.  l is the loop running it, mdl
\* and act the model and isCameraActive values captured by this detectFrame
\* closure, lp the loops before the call.
detectFrame(l, mdl, act, lp) ==
  IF mdl = "null" \/ ~mounted
  THEN /\ loops' = [lp EXCEPT ![l] = FreeLoop]
       /\ UNCHANGED <<canvasSize, marks, animationRef>>
  ELSE IF readyState = HAVE_ENOUGH_DATA
  THEN \* assigning canvas.width / canvas.height resets the bitmap
       /\ canvasSize' = videoSize
       /\ marks' = IF canvasSize # videoSize THEN <<>> ELSE marks
       /\ loops' = [lp EXCEPT ![l] = [st |-> "detect", mdl |-> mdl,
                                      act |-> act]]
       /\ UNCHANGED animationRef
  ELSE IF act
  THEN /\ loops' = [lp EXCEPT ![l] = [st |-> "raf", mdl |-> mdl,
                                      act |-> act]]
       /\ animationRef' = l
       /\ UNCHANGED <<canvasSize, marks>>
  ELSE /\ loops' = [lp EXCEPT ![l] = FreeLoop]
       /\ UNCHANGED <<canvasSize, marks, animationRef>>

\* detectFrame after the await with the rescheduling of lines 81-83 left
\* out: the loop ends after one rendered frame.
detectFrameResume_noReschedule(l, predictions) ==
  /\ marks' = drawPredictions(predictions, marks)
  /\ loops' = [loops EXCEPT ![l] = FreeLoop]
  /\ UNCHANGED <<canvasSize, animationRef>>

\* detectFrame after the await: render the result, then schedule the next
\* cycle if the captured isCameraActive is true.
detectFrameResume(l, predictions) ==
  /\ marks' = drawPredictions(predictions, marks)
  /\ IF loops[l].act
     THEN /\ loops' = [loops EXCEPT ![l].st = "raf"]
          /\ animationRef' = l
     ELSE /\ loops' = [loops EXCEPT ![l] = FreeLoop]
          /\ UNCHANGED animationRef
  /\ UNCHANGED canvasSize

\* The effect with the model test dropped, in its condition and in the
\* detectFrame it calls: a cycle starts whenever the session is Active.
runEffect_noModelTest(mdl, active, lp) ==
  LET cleaned == cancelAnimationFrame(lp, animationRef)
  IN IF active
     THEN /\ NewLoop(cleaned) # 0
          /\ detectFrame(NewLoop(cleaned), "loaded", active, cleaned)
     ELSE /\ loops' = cancelAnimationFrame(cleaned, animationRef)
          /\ UNCHANGED <<canvasSize, marks, animationRef>>

\* The effect of lines 118-132 re-running after a commit: cleanup of the
\* previous run, then the body with the committed model and isCameraActive.
runEffect(mdl, active, lp) ==
  LET cleaned == cancelAnimationFrame(lp, animationRef)
  IN IF active /\ mdl # "null"
     THEN /\ NewLoop(cleaned) # 0
          /\ detectFrame(NewLoop(cleaned), mdl, active, cleaned)
     ELSE /\ loops' = cancelAnimationFrame(cleaned, animationRef)
          /\ UNCHANGED <<canvasSize, marks, animationRef>>

\* ---------------------------------------------------------------- actions
\* loadModel resolves: setModel, setIsLoading(false); model changed, so the
\* effect re-runs.
LoadModelOk ==
  /\ mounted /\ isLoading
  /\ model' = "loaded"
  /\ isLoading' = FALSE
  /\ runEffect("loaded", isCameraActive, loops)
  /\ last' = <<"LoadModelOk", 0, <<>>, 0>>
  /\ UNCHANGED sinceStop
  /\ UNCHANGED <<mounted, hasMediaDevices, isCameraActive, error,
                 renderPending, nStarts, tracks, stopCalls, streamSize,
                 srcObject, readyState, videoSize>>

\* loadModel rejects: the catch block.
LoadModelFail ==
  /\ mounted /\ isLoading
  /\ error' = ModelErrorMsg
  /\ isLoading' = FALSE
  /\ last' = <<"LoadModelFail", 0, <<>>, 0>>
  /\ UNCHANGED sinceStop
  /\ UNCHANGED <<mounted, hasMediaDevices, model, isCameraActive,
                 renderPending, nStarts, tracks, stopCalls, streamSize,
                 srcObject, readyState, videoSize, canvasSize, marks,
                 animationRef, loops>>

\* Start click, browser with getUserMedia: setError(null), request a stream.
StartRequest ==
  /\ StartAvailable /\ hasMediaDevices
  /\ nStarts < MaxStarts
  /\ error' = NoError
  /\ nStarts' = nStarts + 1
  /\ tracks' = [tracks EXCEPT ![nStarts + 1] = "pending"]
  /\ last' = <<"StartRequest", nStarts + 1, <<>>, 0>>
  /\ sinceStop' = FALSE
  /\ UNCHANGED <<mounted, hasMediaDevices, model, isLoading, isCameraActive,
                 renderPending, stopCalls, streamSize, srcObject, readyState,
                 videoSize, canvasSize, marks, animationRef, loops>>

\* Start click, browser without getUserMedia.
StartUnsupported ==
  /\ StartAvailable /\ ~hasMediaDevices
  /\ error' = UnsupportedMsg
  /\ last' = <<"StartUnsupported", 0, <<>>, 0>>
  /\ sinceStop' = FALSE
  /\ UNCHANGED <<mounted, hasMediaDevices, model, isLoading, isCameraActive,
                 renderPending, nStarts, tracks, stopCalls, streamSize,
                 srcObject, readyState, videoSize, canvasSize, marks,
                 animationRef, loops>>

\* getUserMedia resolves with stream s: attach it if the video element is
\* still there and install onloadedmetadata.  A stream that was attached
\* before is replaced without its tracks being stopped.
StreamArrives(s) ==
  /\ tracks[s] = "pending"
  /\ \E size \in Resolutions : streamSize' = [streamSize EXCEPT ![s] = size]
  /\ tracks' = [tracks EXCEPT ![s] = "live"]
  /\ IF mounted
     THEN /\ srcObject' = s
          /\ readyState' = HAVE_NOTHING
          /\ videoSize' = NoVideoSize
     ELSE UNCHANGED <<srcObject, readyState, videoSize>>
  /\ last' = <<"StreamArrives", s, <<>>, 0>>
  /\ UNCHANGED sinceStop
  /\ UNCHANGED <<mounted, hasMediaDevices, model, isLoading, isCameraActive,
                 error, renderPending, nStarts, stopCalls, canvasSize, marks,
                 animationRef, loops>>

\* getUserMedia rejects: the catch block of startCamera.
StreamDenied(s) ==
  /\ tracks[s] = "pending"
  /\ tracks' = [tracks EXCEPT ![s] = "failed"]
  /\ error' = IF mounted THEN CameraErrorMsg ELSE error
  /\ last' = <<"StreamDenied", s, <<>>, 0>>
  /\ UNCHANGED sinceStop
  /\ UNCHANGED <<mounted, hasMediaDevices, model, isLoading, isCameraActive,
                 renderPending, nStarts, stopCalls, streamSize, srcObject,
                 readyState, videoSize, canvasSize, marks, animationRef,
                 loops>>

\* loadedmetadata of the attached stream: the handler calls play() and
\* setIsCameraActive(true), which queues a render unless the state is
\* already true.  After unmount videoRef.current is null and the handler
\* throws before the state update.
MetadataReady ==
  /\ srcObject # 0 /\ readyState = HAVE_NOTHING
  /\ readyState' = HAVE_METADATA
  /\ videoSize' = streamSize[srcObject]
  /\ renderPending' = IF mounted /\ ~isCameraActive THEN TRUE
                      ELSE renderPending
  /\ last' = <<"MetadataReady", srcObject, <<>>, 0>>
  /\ UNCHANGED sinceStop
  /\ UNCHANGED <<mounted, hasMediaDevices, model, isLoading, isCameraActive,
                 error, nStarts, tracks, stopCalls, streamSize, srcObject,
                 canvasSize, marks, animationRef, loops>>

\* The video has a decodable frame.
VideoCanPlay ==
  /\ srcObject # 0 /\ readyState = HAVE_METADATA
  /\ readyState' = HAVE_ENOUGH_DATA
  /\ last' = <<"VideoCanPlay", srcObject, <<>>, 0>>
  /\ UNCHANGED sinceStop
  /\ UNCHANGED <<mounted, hasMediaDevices, model, isLoading, isCameraActive,
                 error, renderPending, nStarts, tracks, stopCalls, streamSize,
                 srcObject, videoSize, canvasSize, marks, animationRef,
                 loops>>

\* React commits isCameraActive = true and runs the effect.
Render ==
  /\ mounted /\ renderPending
  /\ renderPending' = FALSE
  /\ isCameraActive' = TRUE
  /\ runEffect(model, TRUE, loops)
  /\ last' = <<"Render", 0, <<>>, 0>>
  /\ UNCHANGED sinceStop
  /\ UNCHANGED <<mounted, hasMediaDevices, model, isLoading, error, nStarts,
                 tracks, stopCalls, streamSize, srcObject, readyState,
                 videoSize>>

\* Stop click: stopCamera, then the synchronous re-render with
\* isCameraActive = false (effect cleanup and else-branch).
Stop ==
  /\ StopAvailable
  /\ LET t == stopCamera(State)
     IN /\ srcObject' = t.srcObject
        /\ tracks' = t.tracks
        /\ stopCalls' = t.stopCalls
        /\ readyState' = t.readyState
        /\ videoSize' = t.videoSize
        /\ animationRef' = t.animationRef
        /\ isCameraActive' = t.isCameraActive
        /\ marks' = t.marks
        /\ loops' = cancelAnimationFrame(
                      cancelAnimationFrame(t.loops, t.animationRef),
                      t.animationRef)
  /\ renderPending' = FALSE
  /\ last' = <<"Stop", 0, <<>>, 0>>
  /\ sinceStop' = TRUE
  /\ UNCHANGED <<mounted, hasMediaDevices, model, isLoading, error, nStarts,
                 streamSize, canvasSize>>

\* An animation-frame callback fires: detectFrame up to its await.
RafFire(l) ==
  /\ loops[l].st = "raf"
  /\ detectFrame(l, loops[l].mdl, loops[l].act, loops)
  /\ last' = <<"RafFire", l, <<>>, 0>>
  /\ UNCHANGED sinceStop
  /\ UNCHANGED <<mounted, hasMediaDevices, model, isLoading, isCameraActive,
                 error, renderPending, nStarts, tracks, stopCalls, streamSize,
                 srcObject, readyState, videoSize>>

\* model.detect(video) resolves with the given predictions.
DetectResolvesWith(l, predictions) ==
  /\ loops[l].st = "detect"
  /\ detectFrameResume(l, predictions)
  /\ last' = <<"DetectResolves", l, predictions, Len(marks)>>
  /\ UNCHANGED <<mounted, hasMediaDevices, model, isLoading, isCameraActive,
                 error, renderPending, nStarts, tracks, stopCalls, streamSize,
                 srcObject, readyState, videoSize, sinceStop>>

\* model.detect(video) resolves.
DetectResolves(l) == \E predictions \in PredLists : DetectResolvesWith(l, predictions)

\* model.detect(video) rejects: detectFrame has no try/catch, the rejection
\* ends the async function.
DetectRejects(l) ==
  /\ loops[l].st = "detect"
  /\ loops' = [loops EXCEPT ![l] = FreeLoop]
  /\ last' = <<"DetectRejects", l, <<>>, 0>>
  /\ UNCHANGED sinceStop
  /\ UNCHANGED <<mounted, hasMediaDevices, model, isLoading, isCameraActive,
                 error, renderPending, nStarts, tracks, stopCalls, streamSize,
                 srcObject, readyState, videoSize, canvasSize, marks,
                 animationRef>>

\* The component is unmounted: the effect cleanup runs (lines 127-131),
\* the refs become null, queued state updates are dropped.
Unmount ==
  /\ mounted
  /\ mounted' = FALSE
  /\ renderPending' = FALSE
  /\ loops' = cancelAnimationFrame(loops, animationRef)
  /\ last' = <<"Unmount", 0, <<>>, 0>>
  /\ UNCHANGED sinceStop
  /\ UNCHANGED <<hasMediaDevices, model, isLoading, isCameraActive, error,
                 nStarts, tracks, stopCalls, streamSize, srcObject, readyState,
                 videoSize, canvasSize, marks, animationRef>>

Next ==
  \/ LoadModelOk
  \/ LoadModelFail
  \/ StartRequest
  \/ StartUnsupported
  \/ \E s \in Streams : StreamArrives(s)
  \/ \E s \in Streams : StreamDenied(s)
  \/ MetadataReady
  \/ VideoCanPlay
  \/ Render
  \/ Stop
  \/ \E l \in Loops : RafFire(l)
  \/ \E l \in Loops : DetectResolves(l)
  \/ \E l \in Loops : DetectRejects(l)
  \/ Unmount

Spec == Init /\ [][Next]_vars

\* The browser runs every pending animation-frame callback, and every
\* detect() promise settles.
Fairness ==
  \A l \in Loops :
    /\ WF_vars(RafFire(l))
    /\ WF_vars(DetectResolves(l) \/ DetectRejects(l))

LiveSpec == Init /\ [][Next]_vars /\ Fairness

\* ------------------------------------------------- renderer specification
\* Longest detection list given to the renderer.
MaxPreds == 2

BoxA == <<10, 10, 100, 200>>
BoxB == <<0, 0, 50, 50>>

\* Results on both sides of the threshold and at it, of the class "person",
\* of another class, and of a class that differs from "person" in case only.
RenderPreds ==
  { [class |-> "person", score |-> 599, bbox |-> BoxA],
    [class |-> "person", score |-> 600, bbox |-> BoxA],
    [class |-> "person", score |-> 920, bbox |-> BoxB],
    [class |-> "dog", score |-> 550, bbox |-> BoxB],
    [class |-> "dog", score |-> 600, bbox |-> BoxB],
    [class |-> "dog", score |-> 920, bbox |-> BoxA],
    [class |-> "Person", score |-> 599, bbox |-> BoxB],
    [class |-> "Person", score |-> 920, bbox |-> BoxA] }
RenderInputs == UNION {[1..n -> RenderPreds] : n \in 0..MaxPreds}

\* An Active session whose first cycle is awaiting detect(): the state after
\* LoadModelOk, StartRequest, StreamArrives(1), MetadataReady, VideoCanPlay,
\* Render.
RenderInit ==
  /\ mounted = TRUE
  /\ hasMediaDevices = TRUE
  /\ model = "loaded"
  /\ isLoading = FALSE
  /\ isCameraActive = TRUE
  /\ error = NoError
  /\ renderPending = FALSE
  /\ nStarts = 1
  /\ tracks = [s \in Streams |-> IF s = 1 THEN "live" ELSE "none"]
  /\ stopCalls = [s \in Streams |-> 0]
  /\ streamSize = [s \in Streams |-> IF s = 1 THEN <<1280, 720>>
                                     ELSE NoVideoSize]
  /\ srcObject = 1
  /\ readyState = HAVE_ENOUGH_DATA
  /\ videoSize = <<1280, 720>>
  /\ canvasSize = <<1280, 720>>
  /\ marks = <<>>
  /\ animationRef = 0
  /\ loops = [l \in Loops |-> IF l = 1
                THEN [st |-> "detect", mdl |-> "loaded", act |-> TRUE]
                ELSE FreeLoop]
  /\ last = <<"Render", 0, <<>>, 0>>
  /\ sinceStop = FALSE

\* The loop of that session, with the provider returning any list.
RenderNext ==
  \/ \E l \in Loops : RafFire(l)
  \/ \E l \in Loops : \E predictions \in RenderInputs :
       DetectResolvesWith(l, predictions)

RenderSpec == RenderInit /\ [][RenderNext]_vars

\* ---------------------------------------------------------------- claims
Alive == {l \in Loops : loops[l].st # "free"}
Scheduled == {l \in Loops : loops[l].st = "raf"}
InFlight == {l \in Loops : loops[l].st = "detect"}
LiveStreams == {s \in Streams : tracks[s] = "live"}

\* C1: in every reachable state at most one detection cycle is pending or
\* in flight: never two unresolved detect() calls, never two loops alive.
C1_AtMostOneCycle ==
  /\ Cardinality(Alive) <= 1
  /\ Cardinality(InFlight) <= 1

\* C2: while the session is not Active, no detection cycle is scheduled and
\* none executes, also when stop() ran while a cycle was awaiting detect().
C2_NoCycleWhileNotActive ==
  (mounted /\ ~isCameraActive) =>
     /\ Scheduled = {}
     /\ last[1] # "RafFire"

\* C3: while the session is not Active the draw surface holds no marks; a
\* detection in flight at stop() is never rendered.
C3_NoMarksWhileNotActive ==
  (mounted /\ ~isCameraActive) => marks = <<>>

\* C4: in every reachable state at most one acquired stream has tracks that
\* were not stopped.
C4_AtMostOneCaptureHandle == Cardinality(LiveStreams) <= 1

\* C5: once the component is torn down, every track of every acquired
\* stream is stopped and no stream is attached to the video element.
C5_TeardownReleasesCamera ==
  ~mounted => (LiveStreams = {} /\ srcObject = 0)

\* C6: when detect() fails while the session is Active, the loop that made
\* the call has its next cycle scheduled.
C6_FailedFrameKeepsLoop ==
  (last[1] = "DetectRejects" /\ mounted /\ isCameraActive) =>
     loops[last[2]].st = "raf"

\* C7: when camera acquisition fails, start() ends with the camera error
\* message set, no stream attached, the session not Active, no detection
\* cycle started and Start available.
C7_AcquisitionFailure ==
  (last[1] = "StreamDenied" /\ mounted) =>
     /\ error = CameraErrorMsg
     /\ srcObject = 0
     /\ ~isCameraActive
     /\ Alive = {}
     /\ StartAvailable

\* C8: stop() is idempotent from every reachable state: a second call right
\* after the first leaves the state of the first, stops no track and
\* cancels no callback, and the attached stream's track is stopped exactly
\* once.
C8_StopIdempotent ==
  LET s1 == stopCamera(State)
      s2 == stopCamera(s1)
  IN /\ s2 = s1
     /\ \A s \in Streams : s2.stopCalls[s] <= 1
     /\ srcObject # 0 => s2.stopCalls[srcObject] = 1

C8_Witness ==
  /\ last[1] = "Stop"
  /\ srcObject = 0
  /\ \E s \in Streams : tracks[s] = "ended" /\ stopCalls[s] = 1
  /\ State = stopCamera(State)

\* C9: a cycle that fires while the session is Active and readyState is not
\* 4 calls neither the provider nor the renderer, leaves the draw surface
\* as it is, and has the next cycle scheduled.
C9_NotReadyCycleIsNoOp ==
  [][\A l \in Loops :
       (last' = <<"RafFire", l, <<>>, 0>> /\ loops[l].st = "raf" /\ mounted
          /\ isCameraActive /\ readyState # HAVE_ENOUGH_DATA) =>
         /\ marks' = marks
         /\ canvasSize' = canvasSize
         /\ \A k \in Loops : loops'[k].st = "detect" => loops[k].st = "detect"
         /\ loops'[l].st = "raf"]_vars

C9_Witness ==
  /\ last[1] = "RafFire"
  /\ mounted /\ isCameraActive /\ readyState # HAVE_ENOUGH_DATA
  /\ loops[last[2]].st = "raf"

\* C10: right after stop() no scheduled cycle is left: a cycle that was
\* scheduled and had not run is canceled.
C10_StopCancelsScheduledCycle ==
  last[1] = "Stop" => Scheduled = {}

\* C11: while the session stays Active with a loaded provider and provider
\* calls resolve, the loop does not stall: the commit that enters Active
\* leaves a cycle pending or in flight, and after every completed cycle the
\* same loop runs another cycle (unless the session leaves Active).
C11_LoopNeverStalls ==
  /\ []((last[1] = "Render" /\ model # "null") =>
          \E l \in Loops : loops[l].st # "free" /\ loops[l].act)
  /\ \A l \in Loops :
       (last[1] = "DetectResolves" /\ last[2] = l /\ mounted /\ isCameraActive)
         ~> ((last[1] = "RafFire" /\ last[2] = l) \/ ~isCameraActive \/ ~mounted)

C11_Witness ==
  /\ last[1] = "RafFire"
  /\ mounted /\ isCameraActive /\ model = "loaded"
  /\ loops[last[2]].st = "detect"
  /\ marks # <<>>

\* The results of a list the claims expect to be drawn, in order.
AtLeastThreshold(p) == p.score >= 600
Kept(predictions) == SelectSeq(predictions, AtLeastThreshold)
IsStrokeRect(m) == m.op = "strokeRect"

\* C12: after a render the surface shows exactly the results with score
\* >= 0.6 (0.6 included): four drawing calls per such result, boxes and
\* labels in input order, nothing for a result below 0.6.
C12_ThresholdFilter ==
  last[1] = "DetectResolves" =>
    LET kept == Kept(last[3])
        boxes == SelectSeq(marks, IsStrokeRect)
    IN /\ Len(marks) = 4 * Len(kept)
       /\ Len(boxes) = Len(kept)
       /\ \A i \in 1..Len(kept) :
            /\ marks[4 * i - 3].op = "strokeRect"
            /\ marks[4 * i - 3].rect = kept[i].bbox
            /\ marks[4 * i - 2].op = "fillRect"
            /\ marks[4 * i - 2].rect = kept[i].bbox
            /\ marks[4 * i - 1].op = "fillRect"
            /\ marks[4 * i].op = "fillText"
            /\ marks[4 * i].text[1] = kept[i].class

C12_Witness ==
  /\ last[1] = "DetectResolves"
  /\ Len(last[3]) = 2
  /\ last[3][1].score = 599
  /\ last[3][2].score = 600
  /\ Len(marks) = 4
  /\ marks[1].rect = last[3][2].bbox

\* C13: the content after a render depends only on the list rendered: it is
\* what the same list gives on an empty surface, whatever was there before,
\* and rendering the same list again leaves it as it is.
C13_RenderReplacesContent ==
  last[1] = "DetectResolves" =>
    /\ marks = drawPredictions(last[3], <<>>)
    /\ Len(marks) = 4 * Len(Kept(last[3]))
    /\ drawPredictions(last[3], marks) = marks

C13_Witness ==
  /\ last[1] = "DetectResolves"
  /\ last[4] = 8
  /\ Len(marks) = 4

\* C17: every drawn result has stroke, fill and label background in the
\* green family when its class is exactly "person" and in the cyan family
\* otherwise.
C17_TwoColorBuckets ==
  last[1] = "DetectResolves" =>
    LET kept == Kept(last[3])
    IN \A i \in 1..Len(kept) :
         IF kept[i].class = "person"
         THEN /\ marks[4 * i - 3].style = "#00FF00"
              /\ marks[4 * i - 2].style = "rgba(0, 255, 0, 0.2)"
              /\ marks[4 * i - 1].style = "#00FF00"
         ELSE /\ marks[4 * i - 3].style = "#00FFFF"
              /\ marks[4 * i - 2].style = "rgba(0, 255, 255, 0.2)"
              /\ marks[4 * i - 1].style = "#00FFFF"

C17_Witness ==
  /\ last[1] = "DetectResolves"
  /\ Len(last[3]) = 2
  /\ last[3][1].class = "person"
  /\ last[3][2].class = "Person"
  /\ Len(marks) = 8
  /\ marks[1].style = "#00FF00"
  /\ marks[5].style = "#00FFFF"

\* C14 as stated: whenever the session is Active the canvas has the video's
\* native size.
C14_CanvasMatchesVideoWhileActive ==
  (mounted /\ isCameraActive) => canvasSize = videoSize

\* C14 as amended: whenever a cycle calls the provider, the canvas has the
\* video's native size at that moment.
C14_CanvasMatchesVideoAtDetect ==
  [][\A l \in Loops :
       (loops[l].st # "detect" /\ loops'[l].st = "detect") =>
          canvasSize' = videoSize']_vars

C14_Witness ==
  /\ last[1] = "RafFire"
  /\ mounted /\ isCameraActive
  /\ loops[last[2]].st = "detect"
  /\ canvasSize = videoSize
  /\ canvasSize = <<640, 480>>
  /\ \E s \in Streams : streamSize[s] = <<1280, 720>>

\* C15: once the provider has failed to load (loading over, no model), the
\* model-load error message stays set.
C15_ModelErrorPersists ==
  (mounted /\ ~isLoading /\ model = "null") => error = ModelErrorMsg

\* C16: start() runs only while the provider is not loading and the session
\* is not Active.
C16_StartOnlyFromIdleOrError ==
  [][last'[1] \in {"StartRequest", "StartUnsupported"} =>
       (~isLoading /\ ~isCameraActive /\ mounted)]_vars

C16_Witness ==
  /\ last[1] = "StartRequest"
  /\ nStarts = 2
  /\ \E s \in Streams : tracks[s] = "ended"
  /\ ~isLoading /\ ~isCameraActive

\* C18: after stop(), as long as Start has not been clicked again, no stream
\* is attached and the session is not Active.
C18_NoActivationAfterStop ==
  (mounted /\ sinceStop) =>
     (srcObject = 0 /\ ~isCameraActive /\ ~renderPending)

\* C19: with no provider loaded, no cycle is pending or in flight, nothing
\* is drawn and no animation-frame callback was ever scheduled.
C19_NoCycleWithoutModel ==
  model = "null" => (Alive = {} /\ marks = <<>> /\ animationRef = 0)

C19_Witness ==
  /\ model = "null" /\ ~isLoading
  /\ mounted /\ isCameraActive
  /\ last[1] = "VideoCanPlay"
  /\ readyState = HAVE_ENOUGH_DATA

\* C20: every pending animation-frame callback has its id in
\* animationRef.current.
C20_PendingCallbackIsInRef ==
  \A l \in Scheduled : animationRef = l

====
